---- MODULE Spec2Model ----
(***************************************************************************)
(* Model of the lock:: reader/writer primitive (ThreadSafe, ReadLock,      *)
(* WriteLock) and of the multi-resource locking functions multi_lock and   *)
(* range_lock.                                                             *)
(*                                                                         *)
(* Granularity.  Every body that runs under a resource's m_mutex           *)
(* (std::lock_guard) is one atomic action.  Every access to shared state   *)
(* made without the mutex (the atomic ++/-- of m_read_locks and the store  *)
(* m_write_lock = false made by the guards) is one atomic action of its    *)
(* own; the guard's thread-local stores to m_proxy are folded into the     *)
(* neighbouring shared access.  The store to the plain bool m_write_lock   *)
(* made by a WriteLock without the mutex is only ever concurrent with      *)
(* reads made under the mutex, whose possible results (old or new value)   *)
(* are the two interleavings of the atomic actions.  That store is not     *)
(* ordered after the holder's stores to the payload either: SpecPayload     *)
(* models the payload with the holder's stores becoming visible to other   *)
(* threads one by one, before or after the flag is seen cleared.           *)
(***************************************************************************)
EXTENDS Integers, Sequences, FiniteSets, TLC

(* ------------------------------ bounds -------------------------------- *)
NumThreads == 2
NumRes == 2
NumSlots == 2
MaxTicket == 1
MaxReadCount == 2
MaxCycles == 1
\* The value the writer of the payload scenario leaves in the payload.
NewValue == 5

Threads == 1..NumThreads
Res == 1..NumRes
Tickets == 0..MaxTicket

\* The guard objects a thread owns, of each kind (ReadLock, WriteLock): thread 1
\* owns NumSlots of them (so that it can copy and move between guards), every
\* other thread owns one.
SlotsOf(t) == IF t = 1 THEN 1..NumSlots ELSE 1..1
Slots == 1..NumSlots

\* nullptr of a guard's m_proxy, and the default std::thread::id().
Null == 0
NoThread == 0

VARIABLES
    m_write_lock,   \* [Res -> BOOLEAN]       ThreadSafe::m_write_lock
    m_read_locks,   \* [Res -> Nat]           ThreadSafe::m_read_locks
    m_priority,     \* [Res -> Tickets]       ThreadSafe::m_priority
    m_reserved_by,  \* [Res -> thread or 0]   ThreadSafe::m_reserved_by
    rl,             \* [Threads -> [Slots -> Res or Null]]  ReadLock::m_proxy
    wl,             \* [Threads -> [Slots -> Res or Null]]  WriteLock::m_proxy
    tmp,            \* [Threads -> Res or Null]  m_proxy of a returned temporary guard
    pc,             \* [Threads -> control point]
    dst,            \* [Threads -> slot the running guard operation assigns to]
    res,            \* [Threads -> resource of the running blocking call]
    ticket,         \* [Threads -> ticket of the running blocking call]
    call,           \* [Threads -> the bindings of the running multi_lock/range_lock]
    todo,           \* [Threads -> indices of bindings still to try / unlock / reserve]
    cycles,         \* [Threads -> calls of the thread counted against MaxCycles]
    endless,        \* [Threads -> BOOLEAN]  the thread goes on calling for ever
    m_object,       \* [Res -> payload value visible to every thread]  ThreadSafe::m_object
    wbuf,           \* [Threads -> payload stores <<r, v>> made, not yet visible to others]
    seen,           \* [Threads -> <<>> or <<v>>, the payload value read through a guard]
    outcome,        \* [Threads -> how the thread's last unlock-of-empty / teardown ended]
    m_mutex,        \* [Res -> thread that holds ThreadSafe::m_mutex, or 0]
    lock            \* [Threads -> Res or Null]  the mutex the thread's std::lock_guard holds

shared == <<m_write_lock, m_read_locks, m_priority, m_reserved_by>>
guards == <<rl, wl>>
orch == <<call, todo>>
payload == <<m_object, wbuf, seen>>
local == <<pc, dst, res, ticket, tmp>>
mutexes == <<m_mutex, lock>>
vars == <<m_write_lock, m_read_locks, m_priority, m_reserved_by, rl, wl, tmp,
          pc, dst, res, ticket, call, todo, cycles, endless, m_object, wbuf, seen,
          outcome, m_mutex, lock>>

(* ------------------------- ThreadSafe helpers -------------------------- *)
reserved(r) == m_reserved_by[r] # NoThread

\* thread_can_claim() that lets nobody claim a reserved resource, not even
\* the thread that reserved it.
thread_can_claim_Nobody(t, r) == ~reserved(r)

\* thread_can_claim() that lets every thread claim, reserved or not.
thread_can_claim_Anyone(t, r) == TRUE

\* thread_can_claim(): !reserved() || m_reserved_by == this thread.
thread_can_claim(t, r) == ~reserved(r) \/ m_reserved_by[r] = t

\* unreserve(): m_reserved_by = std::thread::id(); m_priority keeps its value.
unreserve(r) ==
    /\ m_reserved_by' = [m_reserved_by EXCEPT ![r] = NoThread]
    /\ UNCHANGED m_priority

\* reserve_locked() in which an equal priority always takes the claim over.
reserve_locked_Latest(t, r, priority) ==
    IF ~reserved(r) \/ priority >= m_priority[r]
    THEN /\ m_reserved_by' = [m_reserved_by EXCEPT ![r] = t]
         /\ m_priority' = [m_priority EXCEPT ![r] = priority]
    ELSE UNCHANGED <<m_reserved_by, m_priority>>

\* reserve_locked that compares the priorities whether or not the resource
\* is reserved (the test of reserved() left out).
reserve_locked_PriorityOnly(t, r, priority) ==
    IF priority > m_priority[r]
    THEN /\ m_reserved_by' = [m_reserved_by EXCEPT ![r] = t]
         /\ m_priority' = [m_priority EXCEPT ![r] = priority]
    ELSE IF m_priority[r] = priority /\ m_reserved_by[r] >= t
         THEN /\ m_reserved_by' = [m_reserved_by EXCEPT ![r] = t]
              /\ UNCHANGED m_priority
         ELSE UNCHANGED <<m_reserved_by, m_priority>>

\* reserve_locked(priority), called with the mutex held.
reserve_locked(t, r, priority) ==
    IF ~reserved(r) \/ priority > m_priority[r]
    THEN /\ m_reserved_by' = [m_reserved_by EXCEPT ![r] = t]
         /\ m_priority' = [m_priority EXCEPT ![r] = priority]
    ELSE IF m_priority[r] = priority /\ m_reserved_by[r] >= t
         THEN /\ m_reserved_by' = [m_reserved_by EXCEPT ![r] = t]
              /\ UNCHANGED m_priority
         ELSE UNCHANGED <<m_reserved_by, m_priority>>

\* ThreadSafe::reserve(priority): reserve_locked under the mutex.
reserve(t, r, priority) ==
    /\ reserve_locked(t, r, priority)
    /\ UNCHANGED <<m_write_lock, m_read_locks>>

\* CanWrite that forgets the readers (the test of m_read_locks left out).
CanWrite_NoReaders(t, r) ==
    /\ ~m_write_lock[r]
    /\ thread_can_claim(t, r)

\* The condition tested under the mutex by write()/try_write() ...
CanWrite(t, r) ==
    /\ ~m_write_lock[r]
    /\ m_read_locks[r] = 0
    /\ thread_can_claim(t, r)

\* CanRead that ignores the reservation (thread_can_claim left out).
CanRead_NoClaim(t, r) == ~m_write_lock[r]

\* CanRead that admits one reader at a time (m_read_locks tested as well).
CanRead_Exclusive(t, r) ==
    /\ ~m_write_lock[r]
    /\ m_read_locks[r] = 0
    /\ thread_can_claim(t, r)

\* ... and by read()/try_read().
CanRead(t, r) ==
    /\ ~m_write_lock[r]
    /\ thread_can_claim(t, r)

\* Granted branch of write()/try_write() without the unreserve().
GrantWrite_KeepReservation(r) ==
    /\ m_write_lock' = [m_write_lock EXCEPT ![r] = TRUE]
    /\ UNCHANGED <<m_read_locks, m_reserved_by, m_priority>>

\* Granted branch of write()/try_write(): m_write_lock = true; unreserve().
GrantWrite(r) ==
    /\ m_write_lock' = [m_write_lock EXCEPT ![r] = TRUE]
    /\ unreserve(r)
    /\ UNCHANGED m_read_locks

\* Granted branch of read()/try_read(): m_read_locks.fetch_add(1); unreserve().
GrantRead(r) ==
    /\ m_read_locks' = [m_read_locks EXCEPT ![r] = @ + 1]
    /\ unreserve(r)
    /\ UNCHANGED m_write_lock

\* --m_proxy->m_read_locks / ++m_proxy->m_read_locks of a guard.
Dec(r) == m_read_locks' = [m_read_locks EXCEPT ![r] = @ - 1]
Inc(r) == m_read_locks' = [m_read_locks EXCEPT ![r] = @ + 1]

\* The store m_proxy->m_write_lock = false of a WriteLock that lets go of r.
ClearWrite(r) == m_write_lock' = [m_write_lock EXCEPT ![r] = FALSE]

(* ----------------------- thread-local bookkeeping ---------------------- *)
\* Thread t is at control point p of an operation on slot s and resource r.
Goto(t, p, s, r, k) ==
    /\ pc' = [pc EXCEPT ![t] = p]
    /\ dst' = [dst EXCEPT ![t] = s]
    /\ res' = [res EXCEPT ![t] = r]
    /\ ticket' = [ticket EXCEPT ![t] = k]

\* The running operation of t is complete.
Return(t) == Goto(t, "idle", 0, Null, 0)

\* `*this = <returned guard g>` for the ReadLock in slot s (operator=(ReadLock&&)
\* from the temporary returned by read()/try_read()).  An empty destination
\* takes the binding at once (thread-local stores only); a bound destination
\* first has to release its old binding, which is the separate step RAssign.
ReturnRead(t, s, g) ==
    IF rl[t][s] = Null
    THEN /\ rl' = [rl EXCEPT ![t][s] = g]
         /\ Return(t)
         /\ UNCHANGED tmp
    ELSE /\ tmp' = [tmp EXCEPT ![t] = g]
         /\ Goto(t, "rassign", s, Null, 0)
         /\ UNCHANGED rl

\* The same for the WriteLock in slot s.
ReturnWrite(t, s, g) ==
    IF wl[t][s] = Null
    THEN /\ wl' = [wl EXCEPT ![t][s] = g]
         /\ Return(t)
         /\ UNCHANGED tmp
    ELSE /\ tmp' = [tmp EXCEPT ![t] = g]
         /\ Goto(t, "wassign", s, Null, 0)
         /\ UNCHANGED wl

(* --------------------------- ReadLock (guard) -------------------------- *)
\* try_lock whose failed try_read() registers a reservation.
RTryLock_Reserve(t, s, r) ==
    /\ pc[t] = "idle"
    /\ IF CanRead(t, r)
       THEN GrantRead(r) /\ ReturnRead(t, s, r)
       ELSE reserve(t, r, 0) /\ ReturnRead(t, s, Null)
    /\ UNCHANGED <<wl, orch>>

\* ReadLock::try_lock(proxy): `return *this = proxy.try_read();`
RTryLock(t, s, r) ==
    /\ pc[t] = "idle"
    /\ IF CanRead(t, r)
       THEN GrantRead(r) /\ ReturnRead(t, s, r)
       ELSE UNCHANGED shared /\ ReturnRead(t, s, Null)
    /\ UNCHANGED <<wl, orch>>

\* ReadLock::lock(proxy) / ReadLock(proxy): ThreadSafe::read() draws the ticket
\* k of the call and makes its first attempt.
RLock(t, s, r, k) ==
    /\ pc[t] = "idle"
    /\ IF CanRead(t, r)
       THEN GrantRead(r) /\ ReturnRead(t, s, r)
       ELSE /\ reserve(t, r, k)
            /\ Goto(t, "read", s, r, k)
            /\ UNCHANGED <<rl, tmp>>
    /\ UNCHANGED <<wl, orch>>

\* A later iteration of the loop of ThreadSafe::read(), under the mutex.
ReadIter(t) ==
    /\ pc[t] = "read"
    /\ IF CanRead(t, res[t])
       THEN GrantRead(res[t]) /\ ReturnRead(t, dst[t], res[t])
       ELSE /\ reserve(t, res[t], ticket[t])
            /\ UNCHANGED <<rl, local>>
    /\ UNCHANGED <<wl, orch>>

\* Rest of ReadLock::operator=(ReadLock &&) from the temporary when the
\* destination was bound: --m_proxy->m_read_locks, then take the binding.
RAssign(t) ==
    /\ pc[t] = "rassign"
    /\ Dec(rl[t][dst[t]])
    /\ rl' = [rl EXCEPT ![t][dst[t]] = tmp[t]]
    /\ tmp' = [tmp EXCEPT ![t] = Null]
    /\ Return(t)
    /\ UNCHANGED <<m_write_lock, m_priority, m_reserved_by, wl, orch>>

\* ReadLock::unlock() that decrements but keeps the guard bound.
RUnlock_KeepBound(t, s) ==
    /\ pc[t] = "idle"
    /\ rl[t][s] # Null
    /\ Dec(rl[t][s])
    /\ UNCHANGED <<m_write_lock, m_priority, m_reserved_by, guards, local, orch>>

\* ReadLock::unlock(), and ~ReadLock() of a bound guard.
RUnlock(t, s) ==
    /\ pc[t] = "idle"
    /\ rl[t][s] # Null
    /\ Dec(rl[t][s])
    /\ rl' = [rl EXCEPT ![t][s] = Null]
    /\ UNCHANGED <<m_write_lock, m_priority, m_reserved_by, wl, local, orch>>

\* RCopyConstruct that takes the binding without counting it.
RCopyConstruct_NoCount(t, s, o) ==
    /\ pc[t] = "idle"
    /\ s # o
    /\ rl[t][s] = Null
    /\ rl' = [rl EXCEPT ![t][s] = rl[t][o]]
    /\ UNCHANGED <<shared, wl, local, orch>>

\* ReadLock(ReadLock const& other): a new guard in slot s copied from slot o.
RCopyConstruct(t, s, o) ==
    /\ pc[t] = "idle"
    /\ s # o
    /\ rl[t][s] = Null
    /\ rl' = [rl EXCEPT ![t][s] = rl[t][o]]
    /\ IF rl[t][o] # Null
       THEN Inc(rl[t][o])
       ELSE UNCHANGED m_read_locks
    /\ UNCHANGED <<m_write_lock, m_priority, m_reserved_by, wl, local, orch>>

\* ReadLock::operator=(ReadLock const& other), slot s assigned from slot o
\* (s = o is self-assignment).  The decrement of the old resource and the
\* increment of the new one are two atomic operations: when both happen, the
\* increment is the separate step RCopyAssign2.
RCopyAssign(t, s, o) ==
    /\ pc[t] = "idle"
    /\ rl' = [rl EXCEPT ![t][s] = rl[t][o]]
    /\ IF rl[t][s] # Null /\ rl[t][s] # rl[t][o]
       THEN /\ Dec(rl[t][s])
            /\ IF rl[t][o] # Null
               THEN Goto(t, "rcopy2", s, Null, 0)
               ELSE UNCHANGED <<pc, dst, res, ticket>>
       ELSE /\ IF rl[t][o] # Null
               THEN /\ m_read_locks[rl[t][o]] < MaxReadCount
                    /\ Inc(rl[t][o])
               ELSE UNCHANGED m_read_locks
            /\ UNCHANGED <<pc, dst, res, ticket>>
    /\ UNCHANGED <<m_write_lock, m_priority, m_reserved_by, wl, tmp, orch>>

\* Second half of the copy assignment: ++other.m_proxy->m_read_locks.
RCopyAssign2(t) ==
    /\ pc[t] = "rcopy2"
    /\ Inc(rl[t][dst[t]])
    /\ Return(t)
    /\ UNCHANGED <<m_write_lock, m_priority, m_reserved_by, guards, tmp, orch>>

\* RMoveConstruct that leaves the source bound.
RMoveConstruct_KeepSource(t, s, o) ==
    /\ pc[t] = "idle"
    /\ s # o
    /\ rl[t][s] = Null
    /\ rl' = [rl EXCEPT ![t][s] = rl[t][o]]
    /\ UNCHANGED <<shared, wl, local, orch>>

\* ReadLock(ReadLock && move): a new guard in slot s takes slot o's binding.
RMoveConstruct(t, s, o) ==
    /\ pc[t] = "idle"
    /\ s # o
    /\ rl[t][s] = Null
    /\ rl' = [rl EXCEPT ![t][s] = rl[t][o], ![t][o] = Null]
    /\ UNCHANGED <<shared, wl, local, orch>>

\* ReadLock::operator=(ReadLock && other); this == &other returns at once.
RMoveAssign(t, s, o) ==
    /\ pc[t] = "idle"
    /\ s # o
    /\ IF rl[t][s] # Null
       THEN Dec(rl[t][s])
       ELSE UNCHANGED m_read_locks
    /\ rl' = [rl EXCEPT ![t][s] = rl[t][o], ![t][o] = Null]
    /\ UNCHANGED <<m_write_lock, m_priority, m_reserved_by, wl, local, orch>>

(* --------------------------- WriteLock (guard) ------------------------- *)
\* WriteLock::try_lock(proxy): `return *this = proxy.try_write();`
WTryLock(t, s, r) ==
    /\ pc[t] = "idle"
    /\ IF CanWrite(t, r)
       THEN GrantWrite(r) /\ ReturnWrite(t, s, r)
       ELSE UNCHANGED shared /\ ReturnWrite(t, s, Null)
    /\ UNCHANGED <<rl, orch>>

\* WriteLock::lock(proxy) / WriteLock(proxy): ThreadSafe::write() draws the
\* ticket k of the call and makes its first attempt.
WLock(t, s, r, k) ==
    /\ pc[t] = "idle"
    /\ IF CanWrite(t, r)
       THEN GrantWrite(r) /\ ReturnWrite(t, s, r)
       ELSE /\ reserve(t, r, k)
            /\ Goto(t, "write", s, r, k)
            /\ UNCHANGED <<wl, tmp>>
    /\ UNCHANGED <<rl, orch>>

\* An iteration of write() that draws a new ticket instead of keeping the
\* ticket of the call.
WriteIter_NewTicket(t) ==
    /\ pc[t] = "write"
    /\ IF CanWrite(t, res[t])
       THEN GrantWrite(res[t]) /\ ReturnWrite(t, dst[t], res[t])
       ELSE /\ \E k \in Tickets :
                  /\ reserve(t, res[t], k)
                  /\ ticket' = [ticket EXCEPT ![t] = k]
            /\ UNCHANGED <<wl, pc, dst, res, tmp>>
    /\ UNCHANGED <<rl, orch>>

\* A later iteration of the loop of ThreadSafe::write(), under the mutex.
WriteIter(t) ==
    /\ pc[t] = "write"
    /\ IF CanWrite(t, res[t])
       THEN GrantWrite(res[t]) /\ ReturnWrite(t, dst[t], res[t])
       ELSE /\ reserve(t, res[t], ticket[t])
            /\ UNCHANGED <<wl, local>>
    /\ UNCHANGED <<rl, orch>>

\* Rest of WriteLock::operator=(WriteLock &&) from the temporary when the
\* destination was bound: m_proxy->m_write_lock = false, then take the binding.
WAssign(t) ==
    /\ pc[t] = "wassign"
    /\ ClearWrite(wl[t][dst[t]])
    /\ wl' = [wl EXCEPT ![t][dst[t]] = tmp[t]]
    /\ tmp' = [tmp EXCEPT ![t] = Null]
    /\ Return(t)
    /\ UNCHANGED <<m_read_locks, m_priority, m_reserved_by, rl, orch>>

\* WriteLock::unlock() that clears the reservation of the resource as well.
WUnlock_Unreserve(t, s) ==
    /\ pc[t] = "idle"
    /\ wl[t][s] # Null
    /\ ClearWrite(wl[t][s])
    /\ unreserve(wl[t][s])
    /\ wl' = [wl EXCEPT ![t][s] = Null]
    /\ UNCHANGED <<m_read_locks, rl, local, orch>>

\* WriteLock::unlock(), and ~WriteLock() of a bound guard.
WUnlock(t, s) ==
    /\ pc[t] = "idle"
    /\ wl[t][s] # Null
    /\ ClearWrite(wl[t][s])
    /\ wl' = [wl EXCEPT ![t][s] = Null]
    /\ UNCHANGED <<m_read_locks, m_priority, m_reserved_by, rl, local, orch>>

\* WriteLock(WriteLock && move): a new guard in slot s takes slot o's binding.
WMoveConstruct(t, s, o) ==
    /\ pc[t] = "idle"
    /\ s # o
    /\ wl[t][s] = Null
    /\ wl' = [wl EXCEPT ![t][s] = wl[t][o], ![t][o] = Null]
    /\ UNCHANGED <<shared, rl, local, orch>>

\* WMoveAssign that overwrites a bound destination without releasing it.
WMoveAssign_NoRelease(t, s, o) ==
    /\ pc[t] = "idle"
    /\ s # o
    /\ wl' = [wl EXCEPT ![t][s] = wl[t][o], ![t][o] = Null]
    /\ UNCHANGED <<shared, rl, local, orch>>

\* WriteLock::operator=(WriteLock && move); &move == this returns at once.
WMoveAssign(t, s, o) ==
    /\ pc[t] = "idle"
    /\ s # o
    /\ IF wl[t][s] # Null
       THEN ClearWrite(wl[t][s])
       ELSE UNCHANGED m_write_lock
    /\ wl' = [wl EXCEPT ![t][s] = wl[t][o], ![t][o] = Null]
    /\ UNCHANGED <<m_read_locks, m_priority, m_reserved_by, rl, local, orch>>

(* ------------------------------ initial state -------------------------- *)
\* ThreadSafe(Args&&...): unlocked, m_reserved_by default-constructed.  The
\* constructor does not initialise m_priority: it holds any value.
InitShared ==
    /\ m_write_lock = [r \in Res |-> FALSE]
    /\ m_read_locks = [r \in Res |-> 0]
    /\ m_priority \in [Res -> Tickets]
    /\ m_reserved_by = [r \in Res |-> NoThread]
    /\ m_mutex = [r \in Res |-> NoThread]

\* No multi_lock / range_lock call is running.
NoCall == [kind |-> "none", ranges |-> <<>>]

\* ReadLock() / WriteLock(): every guard starts empty; no operation runs.
InitThreads ==
    /\ rl = [t \in Threads |-> [s \in Slots |-> Null]]
    /\ wl = [t \in Threads |-> [s \in Slots |-> Null]]
    /\ tmp = [t \in Threads |-> Null]
    /\ pc = [t \in Threads |-> "idle"]
    /\ dst = [t \in Threads |-> 0]
    /\ res = [t \in Threads |-> Null]
    /\ ticket = [t \in Threads |-> 0]
    /\ call = [t \in Threads |-> NoCall]
    /\ todo = [t \in Threads |-> <<>>]
    /\ cycles = [t \in Threads |-> 0]
    /\ lock = [t \in Threads |-> Null]

\* The payload of every resource is constructed as 0; nothing is stored or
\* read yet, and no unlock of an empty guard or teardown has happened.
InitPayload ==
    /\ m_object = [r \in Res |-> 0]
    /\ wbuf = [t \in Threads |-> <<>>]
    /\ seen = [t \in Threads |-> <<>>]
    /\ outcome = [t \in Threads |-> "none"]

Init == InitShared /\ InitThreads /\ InitPayload /\ endless = [t \in Threads |-> FALSE]

(* ------------------- Spec: free use of the guard interface ------------- *)
GuardStep(t) ==
    \/ \E s \in SlotsOf(t), r \in Res : RTryLock(t, s, r)
    \/ \E s \in SlotsOf(t), r \in Res, k \in Tickets : RLock(t, s, r, k)
    \/ ReadIter(t)
    \/ RAssign(t)
    \/ \E s \in SlotsOf(t) : RUnlock(t, s)
    \/ \E s, o \in SlotsOf(t) : RCopyConstruct(t, s, o)
    \/ \E s, o \in SlotsOf(t) : RCopyAssign(t, s, o)
    \/ RCopyAssign2(t)
    \/ \E s, o \in SlotsOf(t) : RMoveConstruct(t, s, o)
    \/ \E s, o \in SlotsOf(t) : RMoveAssign(t, s, o)
    \/ \E s \in SlotsOf(t), r \in Res : WTryLock(t, s, r)
    \/ \E s \in SlotsOf(t), r \in Res, k \in Tickets : WLock(t, s, r, k)
    \/ WriteIter(t)
    \/ WAssign(t)
    \/ \E s \in SlotsOf(t) : WUnlock(t, s)
    \/ \E s, o \in SlotsOf(t) : WMoveConstruct(t, s, o)
    \/ \E s, o \in SlotsOf(t) : WMoveAssign(t, s, o)

Next ==
    (\E t \in Threads : GuardStep(t))
        /\ UNCHANGED <<cycles, endless, payload, outcome, mutexes>>

Spec == Init /\ [][Next]_vars
(* ---------------------- multi_lock and range_lock ---------------------- *)
\* A binding is a lock pair (ReadLockPair / WriteLockPair): the resource r and
\* the kind m of its guard.  The guard of the i-th binding of a call (in
\* argument order) is the calling thread's slot i of that kind.  A call is
\* [kind, ranges]: range_lock takes a sequence of ranges, each a sequence of
\* bindings of one kind; multi_lock takes one sequence of bindings.
Bindings == [r : Res, m : {"R", "W"}]

RECURSIVE Flat(_)
Flat(rs) == IF rs = <<>> THEN <<>> ELSE Head(rs) \o Flat(Tail(rs))

\* Number of bindings in the ranges before range k.
RECURSIVE Off(_, _)
Off(rs, k) == IF k <= 1 THEN 0 ELSE Off(rs, k - 1) + Len(rs[k - 1])

\* The range the i-th binding lies in.
RangeOf(rs, i) == CHOOSE k \in 1..Len(rs) : Off(rs, k) < i /\ i <= Off(rs, k) + Len(rs[k])

\* The sequence a+1, ..., a+n.
RECURSIVE Upto(_, _)
Upto(a, n) == IF n <= 0 THEN <<>> ELSE Append(Upto(a, n - 1), a + n)

\* helper::try_lock(pair, rest0, restN...): when the attempt on binding i
\* fails, the recursion unwinds and unlocks i-1, i-2, ..., 1.
RECURSIVE MultiRollback_KeepFirst(_)
MultiRollback_KeepFirst(i) ==
    IF i <= 2 THEN <<>> ELSE <<i - 1>> \o MultiRollback_KeepFirst(i - 1)
RECURSIVE MultiRollback(_)
MultiRollback(i) == IF i <= 1 THEN <<>> ELSE <<i - 1>> \o MultiRollback(i - 1)

\* helper::try_lock_ranges(range, rest0, restN...) unwinding from range k:
\* the whole of range k, then of range k-1, ..., each from its begin on.
RECURSIVE WholeRanges(_, _)
WholeRanges(rs, k) ==
    IF k = 0 THEN <<>>
    ELSE Upto(Off(rs, k), Len(rs[k])) \o WholeRanges(rs, k - 1)

\* A rollback that unlocks the partially iterated range only and forgets the
\* ranges before it.
RangeRollback_ThisRange(rs, i) ==
    LET k == RangeOf(rs, i)
    IN  Upto(Off(rs, k), i - 1 - Off(rs, k))

\* helper::try_lock_ranges(range): when the attempt on binding i fails,
\* [begin, it) of its range is unlocked, then the earlier ranges.
RangeRollback(rs, i) ==
    LET k == RangeOf(rs, i)
    IN  Upto(Off(rs, k), i - 1 - Off(rs, k)) \o WholeRanges(rs, k - 1)

RollbackOrder(c, i) ==
    IF c.kind = "multi" THEN MultiRollback(i) ELSE RangeRollback(c.ranges, i)

\* helper::reserve(ticket, ts, rest...) passes on to reserve(ticket, rest...)
\* and reserves nothing itself: only the one-argument overload calls
\* ts.reserve(ticket), so multi_lock reserves its last resource only.
MultiReserve(n) == <<n>>

\* helper::reserve_ranges: every binding of every range, in order.
RangeReserve_LastOnly(n) == <<n>>
RangeReserve(n) == Upto(0, n)

ReserveOrder(c) ==
    IF c.kind = "multi" THEN MultiReserve(Len(Flat(c.ranges)))
    ELSE RangeReserve(Len(Flat(c.ranges)))

NumBindings(t) == Len(Flat(call[t].ranges))
Binding(t, i) == Flat(call[t].ranges)[i]

\* The calls a thread may make: bindings of distinct resources.
Distinct(bs) == \A i, j \in 1..Len(bs) : i # j => bs[i].r # bs[j].r
RECURSIVE ListsOfLen(_)
ListsOfLen(n) ==
    IF n = 0 THEN {<<>>}
    ELSE {Append(bs, b) : bs \in ListsOfLen(n - 1), b \in Bindings}
BindingLists == {bs \in UNION {ListsOfLen(n) : n \in 1..NumRes} : Distinct(bs)}
MultiCalls == {[kind |-> "multi", ranges |-> <<bs>>] : bs \in BindingLists}
OneKind(bs) == \A i, j \in 1..Len(bs) : bs[i].m = bs[j].m
Splits(bs) ==
    {<<bs>>} \cup
    {<<SubSeq(bs, 1, n), SubSeq(bs, n + 1, Len(bs))>> : n \in 1..(Len(bs) - 1)}
RangeCalls ==
    {[kind |-> "range", ranges |-> rs] :
        rs \in {x \in UNION {Splits(bs) : bs \in BindingLists} :
                    \A k \in 1..Len(x) : OneKind(x[k])}}

\* Entry of multi_lock(pairs...) / range_lock(ranges...) with call c: the
\* guards of the caller are empty, the optimistic pass starts at binding 1.
OCall(t, c) ==
    /\ pc[t] = "idle"
    /\ cycles[t] < MaxCycles
    /\ \A s \in Slots : rl[t][s] = Null /\ wl[t][s] = Null
    /\ pc' = [pc EXCEPT ![t] = "try0"]
    /\ call' = [call EXCEPT ![t] = c]
    /\ todo' = [todo EXCEPT ![t] = Upto(0, Len(Flat(c.ranges)))]
    /\ UNCHANGED <<shared, guards, tmp, dst, res, ticket, cycles>>

\* The pass has failed and is rolled back: the loop reserves with the call's
\* ticket and tries again.  Leaving the optimistic pass draws the ticket k.
Retry(t, k) ==
    /\ pc' = [pc EXCEPT ![t] = "reserve"]
    /\ todo' = [todo EXCEPT ![t] = ReserveOrder(call[t])]
    /\ ticket' = [ticket EXCEPT ![t] = IF pc[t] \in {"try0", "undo0"} THEN k ELSE @]

\* helper::try_lock / helper::try_lock_ranges return true once the attempt on
\* the last binding has succeeded: no binding of the pass is left.
PassDone_Early(t) == Len(todo[t]) <= 2
PassDone(t) == Tail(todo[t]) = <<>>

\* helper::try_lock(pair): pair.lock.try_lock(pair.thread_safe) on the next
\* binding of the pass.  The guard is empty, so the returned guard is moved in
\* by thread-local stores.
OTry(t, k) ==
    /\ pc[t] \in {"try0", "try"}
    /\ LET i == Head(todo[t])
           b == Binding(t, i)
           ok == IF b.m = "W" THEN CanWrite(t, b.r) ELSE CanRead(t, b.r)
       IN  IF ok
           THEN /\ IF b.m = "W"
                   THEN GrantWrite(b.r) /\ wl' = [wl EXCEPT ![t][i] = b.r] /\ UNCHANGED rl
                   ELSE GrantRead(b.r) /\ rl' = [rl EXCEPT ![t][i] = b.r] /\ UNCHANGED wl
                /\ todo' = [todo EXCEPT ![t] = Tail(@)]
                /\ pc' = [pc EXCEPT ![t] = IF PassDone(t) THEN "held" ELSE @]
                /\ UNCHANGED ticket
           ELSE /\ UNCHANGED <<shared, guards>>
                /\ IF RollbackOrder(call[t], i) = <<>>
                   THEN Retry(t, k)
                   ELSE /\ pc' = [pc EXCEPT ![t] = IF @ = "try0" THEN "undo0" ELSE "undo"]
                        /\ todo' = [todo EXCEPT ![t] = RollbackOrder(call[t], i)]
                        /\ UNCHANGED ticket
    /\ UNCHANGED <<tmp, dst, res, call, cycles>>

\* The guard of binding i of t lets go: ReadLock::unlock / WriteLock::unlock.
UnlockBinding(t, i) ==
    IF Binding(t, i).m = "W"
    THEN /\ ClearWrite(wl[t][i])
         /\ wl' = [wl EXCEPT ![t][i] = Null]
         /\ UNCHANGED <<m_read_locks, rl>>
    ELSE /\ Dec(rl[t][i])
         /\ rl' = [rl EXCEPT ![t][i] = Null]
         /\ UNCHANGED <<m_write_lock, wl>>

\* One unlock of the rollback of a failed pass.
OUndo(t, k) ==
    /\ pc[t] \in {"undo0", "undo"}
    /\ UnlockBinding(t, Head(todo[t]))
    /\ IF Tail(todo[t]) = <<>>
       THEN Retry(t, k)
       ELSE /\ todo' = [todo EXCEPT ![t] = Tail(@)]
            /\ UNCHANGED <<pc, ticket>>
    /\ UNCHANGED <<m_priority, m_reserved_by, tmp, dst, res, call, cycles>>

\* One ts.reserve(ticket) of the reservation round; after the last one the
\* next pass starts (std::this_thread::yield() changes nothing).
OReserve(t) ==
    /\ pc[t] = "reserve"
    /\ reserve(t, Binding(t, Head(todo[t])).r, ticket[t])
    /\ IF Tail(todo[t]) = <<>>
       THEN /\ pc' = [pc EXCEPT ![t] = "try"]
            /\ todo' = [todo EXCEPT ![t] = Upto(0, NumBindings(t))]
       ELSE /\ todo' = [todo EXCEPT ![t] = Tail(@)]
            /\ UNCHANGED pc
    /\ UNCHANGED <<guards, tmp, dst, res, ticket, call, cycles>>

\* After the call has returned the caller lets its guards go, one by one;
\* with the last one its cycle is complete.
ORelease(t, i) ==
    /\ pc[t] = "held"
    /\ i \in 1..NumBindings(t)
    /\ (IF Binding(t, i).m = "W" THEN wl[t][i] ELSE rl[t][i]) # Null
    /\ UnlockBinding(t, i)
    /\ IF \A j \in 1..NumBindings(t) : j # i => rl[t][j] = Null /\ wl[t][j] = Null
       THEN /\ pc' = [pc EXCEPT ![t] = "idle"]
            /\ call' = [call EXCEPT ![t] = NoCall]
            /\ ticket' = [ticket EXCEPT ![t] = 0]
            /\ cycles' = [cycles EXCEPT ![t] = @ + 1]
       ELSE UNCHANGED <<pc, call, ticket, cycles>>
    /\ UNCHANGED <<m_priority, m_reserved_by, tmp, dst, res, todo>>

OrchStep(t) ==
    \/ \E k \in Tickets : OTry(t, k)
    \/ \E k \in Tickets : OUndo(t, k)
    \/ OReserve(t)
    \/ \E i \in Slots : ORelease(t, i)

\* A step of a thread that only makes multi_lock calls / only range_lock
\* calls / calls of either kind, and lets go of its guards after each.
MultiStep(t) ==
    ((\E c \in MultiCalls : OCall(t, c)) \/ OrchStep(t)) /\ UNCHANGED <<endless, payload, outcome, mutexes>>
RangeStep(t) ==
    ((\E c \in RangeCalls : OCall(t, c)) \/ OrchStep(t)) /\ UNCHANGED <<endless, payload, outcome, mutexes>>
AnyStep(t) ==
    ((\E c \in MultiCalls \cup RangeCalls : OCall(t, c)) \/ OrchStep(t))
        /\ UNCHANGED <<endless, payload, outcome, mutexes>>

NextOrch == \E t \in Threads : AnyStep(t)
NextMulti == \E t \in Threads : MultiStep(t)
NextRange == \E t \in Threads : RangeStep(t)

\* Preemptive OS threads: a thread that can take a step eventually takes one
\* (weak fairness of each thread's steps).
SpecOrch == Init /\ [][NextOrch]_vars
SpecMulti == Init /\ [][NextMulti]_vars /\ \A t \in Threads : WF_vars(MultiStep(t))
SpecRange == Init /\ [][NextRange]_vars /\ \A t \in Threads : WF_vars(RangeStep(t))

(* ------------- SpecSingle: threads that call read() and write() -------- *)
\* Each thread uses one guard of each kind (slot 1): it calls read() or
\* write() on some resource with some ticket while it holds nothing, keeps
\* the guard for a while and lets it go.  A thread either goes on calling for
\* ever (endless) or makes at most MaxCycles calls.
InitSingle ==
    /\ InitShared
    /\ InitThreads
    /\ InitPayload
    /\ endless \in [Threads -> BOOLEAN]

SAcquire(t) ==
    /\ rl[t][1] = Null /\ wl[t][1] = Null
    /\ endless[t] \/ cycles[t] < MaxCycles
    /\ \E r \in Res, k \in Tickets : RLock(t, 1, r, k) \/ WLock(t, 1, r, k)
    /\ cycles' = [cycles EXCEPT ![t] = IF endless[t] THEN @ ELSE @ + 1]

SWait(t) == (ReadIter(t) \/ WriteIter(t)) /\ UNCHANGED cycles

SRelease(t) == (RUnlock(t, 1) \/ WUnlock(t, 1)) /\ UNCHANGED cycles

SingleStep(t) ==
    (SAcquire(t) \/ SWait(t) \/ SRelease(t)) /\ UNCHANGED <<endless, payload, outcome, mutexes>>

NextSingle == \E t \in Threads : SingleStep(t)

SpecSingle ==
    InitSingle /\ [][NextSingle]_vars /\ \A t \in Threads : WF_vars(SingleStep(t))

(* --------- SpecPayload: a writer and readers of the payload ------------ *)
\* Thread 1 takes the WriteLock of a resource with write(), stores rising
\* values into the payload through the guard, the last of them NewValue, and
\* lets the guard go.  Every other thread takes a ReadLock with read(), loads
\* the payload through the guard and lets the guard go.
\*
\* WriteLock::unlock() / ~WriteLock() store m_write_lock = false without the
\* mutex and without any ordering (a plain bool), and read()/try_read() read
\* the flag under the mutex: a data race.  Nothing orders the holder's
\* earlier stores to m_object before that store, so each of them becomes
\* visible to other threads at some point of its own (PFlush), in program
\* order among themselves, before or after the flag is seen cleared.  A mutex
\* operation of the storing thread makes its earlier stores visible.

\* The value of r's payload as thread t itself sees it.
RECURSIVE LastStore(_, _, _)
LastStore(buf, r, old) ==
    IF buf = <<>> THEN old
    ELSE LastStore(Tail(buf), r, IF Head(buf)[1] = r THEN Head(buf)[2] ELSE old)
OwnView(t, r) == LastStore(wbuf[t], r, m_object[r])

\* Entry of write() by the writer / of read() by a reader.
PAcquire(t) ==
    /\ rl[t][1] = Null /\ wl[t][1] = Null
    /\ cycles[t] < MaxCycles
    /\ wbuf[t] = <<>>
    /\ \E r \in Res, k \in Tickets :
          IF t = 1 THEN WLock(t, 1, r, k) ELSE RLock(t, 1, r, k)
    /\ cycles' = [cycles EXCEPT ![t] = @ + 1]
    /\ UNCHANGED payload

PWait(t) ==
    /\ wbuf[t] = <<>>
    /\ ReadIter(t) \/ WriteIter(t)
    /\ UNCHANGED <<cycles, payload>>

\* `*guard = v` by the holder of the WriteLock.
PStore(t, v) ==
    /\ pc[t] = "idle" /\ wl[t][1] # Null
    /\ OwnView(t, wl[t][1]) < v
    /\ wbuf' = [wbuf EXCEPT ![t] = Append(@, <<wl[t][1], v>>)]
    /\ UNCHANGED <<shared, guards, local, orch, cycles, m_object, seen>>

\* The oldest store of t not yet visible becomes visible.
PFlush(t) ==
    /\ wbuf[t] # <<>>
    /\ m_object' = [m_object EXCEPT ![Head(wbuf[t])[1]] = Head(wbuf[t])[2]]
    /\ wbuf' = [wbuf EXCEPT ![t] = Tail(@)]
    /\ UNCHANGED <<shared, guards, local, orch, cycles, seen>>

\* `v = *guard` by the holder of a ReadLock.
PLoad(t) ==
    /\ pc[t] = "idle" /\ rl[t][1] # Null
    /\ seen[t] = <<>>
    /\ seen' = [seen EXCEPT ![t] = <<OwnView(t, rl[t][1])>>]
    /\ UNCHANGED <<shared, guards, local, orch, cycles, m_object, wbuf>>

\* The writer drops its guard once it has stored NewValue; a reader drops its
\* guard once it has read.
PRelease(t) ==
    /\ \/ wl[t][1] # Null /\ OwnView(t, wl[t][1]) = NewValue /\ WUnlock(t, 1)
       \/ seen[t] # <<>> /\ RUnlock(t, 1)
    /\ UNCHANGED <<cycles, payload>>

PayloadStep(t) ==
    (\/ PAcquire(t)
     \/ PWait(t)
     \/ \E v \in 1..NewValue : PStore(t, v)
     \/ PFlush(t)
     \/ PLoad(t)
     \/ PRelease(t)) /\ UNCHANGED <<endless, outcome, mutexes>>

NextPayload == \E t \in Threads : PayloadStep(t)

SpecPayload == Init /\ [][NextPayload]_vars

(* ------- SpecTeardown: misuse of guards and teardown of resources ------ *)
\* The guard interface of Spec, together with unlock() and the destructor on
\* guards in any state, and the move constructor and the destructor of
\* ThreadSafe.  assert() is taken as compiled in (NDEBUG not defined): a
\* failed assertion aborts the process, so every thread stops.  The model
\* follows the program up to the end of the first resource lifetime: a
\* destructor of ThreadSafe that completes ends the run.

\* assert(...) fails in thread t.
AssertFails(t, what) ==
    /\ pc' = [u \in Threads |-> "aborted"]
    /\ outcome' = [outcome EXCEPT ![t] = what]

\* ReadLock::unlock() on an empty guard: assert(locked()) fails.
RUnlockEmpty(t, s) ==
    /\ pc[t] = "idle"
    /\ rl[t][s] = Null
    /\ AssertFails(t, "unlock_assert")
    /\ UNCHANGED <<shared, guards, tmp, dst, res, ticket, orch, cycles, endless, payload>>

\* WriteLock::unlock() on an empty guard: assert(locked()) fails.
WUnlockEmpty(t, s) ==
    /\ pc[t] = "idle"
    /\ wl[t][s] = Null
    /\ AssertFails(t, "unlock_assert")
    /\ UNCHANGED <<shared, guards, tmp, dst, res, ticket, orch, cycles, endless, payload>>

\* ~ReadLock(): if(locked()) --m_proxy->m_read_locks.  The slot is then free
\* for a new, empty guard.
RDestroy(t, s) ==
    /\ pc[t] = "idle"
    /\ IF rl[t][s] # Null
       THEN Dec(rl[t][s]) /\ rl' = [rl EXCEPT ![t][s] = Null]
       ELSE UNCHANGED <<m_read_locks, rl>>
    /\ UNCHANGED <<m_write_lock, m_priority, m_reserved_by, wl, local, orch>>
    /\ UNCHANGED <<cycles, endless, payload, outcome>>

\* ~WriteLock(): if(locked()) m_proxy->m_write_lock = false.
WDestroy(t, s) ==
    /\ pc[t] = "idle"
    /\ IF wl[t][s] # Null
       THEN ClearWrite(wl[t][s]) /\ wl' = [wl EXCEPT ![t][s] = Null]
       ELSE UNCHANGED <<m_write_lock, wl>>
    /\ UNCHANGED <<m_read_locks, m_priority, m_reserved_by, rl, local, orch>>
    /\ UNCHANGED <<cycles, endless, payload, outcome>>

\* The threads that relocate and destroy resources here; every thread uses
\* the guards.
Owners == {2}

\* The payload a resource is left with when T's move constructor has taken
\* its contents.
MovedFrom == -1

\* m_object(std::move(move.m_object)): T's move constructor leaves the payload
\* of r as it is (a trivially copyable T) or moved-from.
MovePayload(r) ==
    \E v \in {m_object[r], MovedFrom} : m_object' = [m_object EXCEPT ![r] = v]

\* TSMove1 that does not look at the write flag.
TSMove1_NoFlagTest(t, r) ==
    /\ pc[t] = "idle"
    /\ MovePayload(r)
    /\ Goto(t, "tsmove", 0, r, 0)
    /\ outcome' = [outcome EXCEPT ![t] = "none"]
    /\ UNCHANGED <<shared, guards, tmp, orch, cycles, endless, wbuf, seen>>

\* ThreadSafe(ThreadSafe && move) with move = r, by thread t.  The member
\* initialisers come first and move the payload out of r.  The test
\* `move.m_write_lock || move.m_read_locks.load()` in the body then reads the
\* two fields one after the other, without the mutex: first the flag ...
TSMove1(t, r) ==
    /\ pc[t] = "idle"
    /\ MovePayload(r)
    /\ IF m_write_lock[r]
       THEN /\ outcome' = [outcome EXCEPT ![t] = "bad_thread_safe_move"]
            /\ UNCHANGED local
       ELSE /\ Goto(t, "tsmove", 0, r, 0)
            /\ outcome' = [outcome EXCEPT ![t] = "none"]
    /\ UNCHANGED <<shared, guards, tmp, orch, cycles, endless, wbuf, seen>>

\* ... then the counter: nonzero throws bad_thread_safe_move, zero completes.
TSMove2(t) ==
    /\ pc[t] = "tsmove"
    /\ outcome' = [outcome EXCEPT ![t] =
                      IF m_read_locks[res[t]] # 0 THEN "bad_thread_safe_move" ELSE "ok"]
    /\ Return(t)
    /\ UNCHANGED <<shared, guards, tmp, orch, cycles, endless, payload>>

\* ~ThreadSafe() of r by thread t: assert(!m_write_lock && !m_read_locks),
\* the flag first ...
TSDestroy1(t, r) ==
    /\ pc[t] = "idle"
    /\ IF m_write_lock[r]
       THEN AssertFails(t, "destruct_assert") /\ UNCHANGED <<dst, res, ticket>>
       ELSE /\ Goto(t, "tsdestroy", 0, r, 0)
            /\ outcome' = [outcome EXCEPT ![t] = "none"]
    /\ UNCHANGED <<shared, guards, tmp, orch, cycles, endless, payload>>

\* ... then the counter.  With both clear the destructor completes.
TSDestroy2(t) ==
    /\ pc[t] = "tsdestroy"
    /\ IF m_read_locks[res[t]] # 0
       THEN AssertFails(t, "destruct_assert")
       ELSE /\ pc' = [u \in Threads |-> "ended"]
            /\ outcome' = [outcome EXCEPT ![t] = "ok"]
    /\ UNCHANGED <<shared, guards, tmp, dst, res, ticket, orch, cycles, endless, payload>>

TeardownStep(t) ==
    \/ GuardStep(t) /\ UNCHANGED <<cycles, endless, payload, outcome>>
    \/ \E s \in SlotsOf(t) : RUnlockEmpty(t, s)
    \/ \E s \in SlotsOf(t) : WUnlockEmpty(t, s)
    \/ \E s \in SlotsOf(t) : RDestroy(t, s)
    \/ \E s \in SlotsOf(t) : WDestroy(t, s)
    \/ t \in Owners /\ \E r \in Res : TSMove1(t, r)
    \/ TSMove2(t)
    \/ t \in Owners /\ \E r \in Res : TSDestroy1(t, r)
    \/ TSDestroy2(t)

NextTeardown == (\E t \in Threads : TeardownStep(t)) /\ UNCHANGED mutexes

SpecTeardown == Init /\ [][NextTeardown]_vars

(* --------------- SpecReserve: reserve() called directly ---------------- *)
\* ThreadSafe::reserve(priority) is public: any thread may call it with any
\* priority, on a resource in any state.  Guards are taken by try_lock and
\* given back by unlock, so that reservations meet set flags, nonzero counts
\* and earlier reservations.
Reserve(t, r, p) ==
    /\ pc[t] = "idle"
    /\ reserve(t, r, p)
    /\ UNCHANGED <<guards, local, orch>>

ReserveStep(t) ==
    /\ \/ \E r \in Res : \E p \in Tickets : Reserve(t, r, p)
       \/ \E r \in Res : RTryLock(t, 1, r)
       \/ \E r \in Res : WTryLock(t, 1, r)
       \/ RAssign(t)
       \/ WAssign(t)
       \/ RUnlock(t, 1)
       \/ WUnlock(t, 1)
    /\ UNCHANGED <<cycles, endless, payload, outcome, mutexes>>

NextReserve == \E t \in Threads : ReserveStep(t)

SpecReserve == Init /\ [][NextReserve]_vars

(* ------------ SpecMutex: the critical sections of m_mutex -------------- *)
\* The operations with their critical sections taken apart: the construction
\* of `std::lock_guard<std::mutex> lock(m_mutex)` is a step of its own, the
\* body up to the end of the guarded scope is the next.  The releases of the
\* guards and the rollback of a pass take no mutex.

\* The threads that call multi_lock and range_lock here; every thread uses the
\* single-resource operations.
Callers == {1}

\* The threads that call reserve() directly here.
Reservers == {2}

\* ~lock_guard() that leaves the mutex locked.
MUnlock_Forget(t) ==
    /\ lock' = [lock EXCEPT ![t] = Null]
    /\ UNCHANGED m_mutex

\* ~lock_guard() at the end of the scope: m_mutex.unlock().
MUnlock(t) ==
    /\ m_mutex' = [m_mutex EXCEPT ![lock[t]] = NoThread]
    /\ lock' = [lock EXCEPT ![t] = Null]

\* The resource whose mutexed function thread t is about to enter: any
\* resource for a thread that starts an operation, the resource of the call
\* in the loops of read() and write(), the resource of the binding at hand
\* in a pass or a reservation round of multi_lock / range_lock.
MayEnter(t, r) ==
    \/ pc[t] = "idle"
    \/ pc[t] \in {"read", "write"} /\ r = res[t]
    \/ pc[t] \in {"try0", "try", "reserve"} /\ r = Binding(t, Head(todo[t])).r

\* lock_guard(m_mutex) of resource r: waits until the mutex is free.
MLock(t, r) ==
    /\ lock[t] = Null
    /\ MayEnter(t, r)
    /\ m_mutex[r] = NoThread
    /\ m_mutex' = [m_mutex EXCEPT ![r] = t]
    /\ lock' = [lock EXCEPT ![t] = r]
    /\ UNCHANGED <<shared, guards, local, orch, cycles>>

\* The body of the critical section of lock[t], and the end of the scope.
MBody(t) ==
    /\ lock[t] # Null
    /\ \/ /\ \/ RTryLock(t, 1, lock[t])
             \/ WTryLock(t, 1, lock[t])
             \/ \E k \in Tickets : RLock(t, 1, lock[t], k)
             \/ \E k \in Tickets : WLock(t, 1, lock[t], k)
             \/ t \in Reservers /\ \E p \in Tickets : Reserve(t, lock[t], p)
             \/ ReadIter(t)
             \/ WriteIter(t)
          /\ UNCHANGED cycles
       \/ \E k \in Tickets : OTry(t, k)
       \/ OReserve(t)
    /\ MUnlock(t)

\* The steps that take no mutex.
MFree(t) ==
    /\ lock[t] = Null
    /\ \/ /\ \/ RUnlock(t, 1)
             \/ WUnlock(t, 1)
             \/ RAssign(t)
             \/ WAssign(t)
          /\ UNCHANGED cycles
       \/ t \in Callers /\ \E c \in MultiCalls \cup RangeCalls : OCall(t, c)
       \/ \E k \in Tickets : OUndo(t, k)
       \/ \E i \in Slots : ORelease(t, i)
    /\ UNCHANGED mutexes

MutexStep(t) ==
    ((\E r \in Res : MLock(t, r)) \/ MBody(t) \/ MFree(t))
        /\ UNCHANGED <<endless, payload, outcome>>

NextMutex == \E t \in Threads : MutexStep(t)

SpecMutex == Init /\ [][NextMutex]_vars

(* -------- SpecLegacy: the legacy Lock:: implementation (Lock.hpp) ------- *)
\* Lock::ThreadSafe keeps _mutex, _write_lock (the WriteLock that holds it, or
\* nullptr) and _read_lock (a plain counter); here m_mutex, m_write_lock (is
\* _write_lock set) and m_read_locks stand for them, rl and wl for the proxy
\* of the guards.  Every function of Lock::ThreadSafe takes _mutex, the
\* unlocks made by the destructors of the guards included.  A critical
\* section that completes without entering another is one step, which needs
\* the mutex free.  try_lock_read / try_lock_write destroy the passed guard
\* inside their critical section (`out.~ReadLock()`): if the guard is bound,
\* its destructor calls unlock_read / unlock_write of the old resource and so
\* takes the old resource's mutex while the new one's is held.

\* Lock::ThreadSafe::try_lock_read(out) on r, out the ReadLock in slot s.
LTryLockRead(t, s, r) ==
    /\ pc[t] = "idle"
    /\ rl[t][s] # r
    /\ m_mutex[r] = NoThread
    /\ IF m_write_lock[r]
       THEN UNCHANGED <<m_read_locks, rl, m_mutex, pc, dst, res, ticket>>
       ELSE /\ Inc(r)
            /\ IF rl[t][s] = Null
               THEN /\ rl' = [rl EXCEPT ![t][s] = r]
                    /\ UNCHANGED <<m_mutex, pc, dst, res, ticket>>
               ELSE /\ m_mutex' = [m_mutex EXCEPT ![r] = t]
                    /\ Goto(t, "release_read", s, r, 0)
                    /\ UNCHANGED rl
    /\ UNCHANGED <<m_write_lock, m_priority, m_reserved_by, wl, tmp, orch, lock>>

\* Lock::ThreadSafe::try_lock_write(out) on r, out the WriteLock in slot s.
LTryLockWrite(t, s, r) ==
    /\ pc[t] = "idle"
    /\ wl[t][s] # r
    /\ m_mutex[r] = NoThread
    /\ IF m_write_lock[r] \/ m_read_locks[r] # 0
       THEN UNCHANGED <<m_write_lock, wl, m_mutex, pc, dst, res, ticket>>
       ELSE /\ m_write_lock' = [m_write_lock EXCEPT ![r] = TRUE]
            /\ IF wl[t][s] = Null
               THEN /\ wl' = [wl EXCEPT ![t][s] = r]
                    /\ UNCHANGED <<m_mutex, pc, dst, res, ticket>>
               ELSE /\ m_mutex' = [m_mutex EXCEPT ![r] = t]
                    /\ Goto(t, "release_write", s, r, 0)
                    /\ UNCHANGED wl
    /\ UNCHANGED <<m_read_locks, m_priority, m_reserved_by, rl, tmp, orch, lock>>

\* The resource the guard passed to the running try_lock is still bound to.
OldProxy(t) == IF pc[t] \in {"release_read", "unlock_read"} THEN rl[t][dst[t]] ELSE wl[t][dst[t]]

\* out.~ReadLock() / out.~WriteLock() inside the critical section of res[t]:
\* unlock_read() / unlock_write() of the old resource constructs its
\* lock_guard, waiting until that mutex is free.
LReleaseEnter(t) ==
    /\ pc[t] \in {"release_read", "release_write"}
    /\ m_mutex[OldProxy(t)] = NoThread
    /\ m_mutex' = [m_mutex EXCEPT ![OldProxy(t)] = t]
    /\ pc' = [pc EXCEPT ![t] = IF @ = "release_read" THEN "unlock_read" ELSE "unlock_write"]
    /\ UNCHANGED <<shared, guards, tmp, dst, res, ticket, orch, lock>>

\* The body of unlock_read() / unlock_write() of the old resource, the
\* placement new that binds the guard to res[t], and the end of both scopes.
LReleaseBody(t) ==
    /\ pc[t] \in {"unlock_read", "unlock_write"}
    /\ IF pc[t] = "unlock_read"
       THEN /\ Dec(OldProxy(t))
            /\ rl' = [rl EXCEPT ![t][dst[t]] = res[t]]
            /\ UNCHANGED <<m_write_lock, wl>>
       ELSE /\ ClearWrite(OldProxy(t))
            /\ wl' = [wl EXCEPT ![t][dst[t]] = res[t]]
            /\ UNCHANGED <<m_read_locks, rl>>
    /\ m_mutex' = [m_mutex EXCEPT ![OldProxy(t)] = NoThread, ![res[t]] = NoThread]
    /\ Return(t)
    /\ UNCHANGED <<m_priority, m_reserved_by, tmp, orch, lock>>

\* Lock::ReadLock::~ReadLock() of a bound guard: proxy->unlock_read().
LDestroyRead(t, s) ==
    /\ pc[t] = "idle"
    /\ rl[t][s] # Null
    /\ m_mutex[rl[t][s]] = NoThread
    /\ Dec(rl[t][s])
    /\ rl' = [rl EXCEPT ![t][s] = Null]
    /\ UNCHANGED <<m_write_lock, m_priority, m_reserved_by, wl, local, orch, mutexes>>

\* Lock::WriteLock::~WriteLock() of a bound guard: proxy->unlock_write(this).
LDestroyWrite(t, s) ==
    /\ pc[t] = "idle"
    /\ wl[t][s] # Null
    /\ m_mutex[wl[t][s]] = NoThread
    /\ ClearWrite(wl[t][s])
    /\ wl' = [wl EXCEPT ![t][s] = Null]
    /\ UNCHANGED <<m_read_locks, m_priority, m_reserved_by, rl, local, orch, mutexes>>

LegacyStep(t) ==
    /\ \/ \E s \in SlotsOf(t), r \in Res : LTryLockRead(t, s, r)
       \/ \E s \in SlotsOf(t), r \in Res : LTryLockWrite(t, s, r)
       \/ LReleaseEnter(t)
       \/ LReleaseBody(t)
       \/ \E s \in SlotsOf(t) : LDestroyRead(t, s)
       \/ \E s \in SlotsOf(t) : LDestroyWrite(t, s)
    /\ UNCHANGED <<cycles, endless, payload, outcome>>

NextLegacy == \E t \in Threads : LegacyStep(t)

SpecLegacy == Init /\ [][NextLegacy]_vars

(* ------------------------- live guards of a resource ------------------- *)
\* The live ReadLock objects bound to r: the guards in the slots, and the
\* temporary returned by read()/try_read() that is still to be moved from.
ReadGuards(r) ==
    {<<t, s>> \in Threads \X Slots : rl[t][s] = r}
        \cup {<<t, 0>> : t \in {u \in Threads : pc[u] = "rassign" /\ tmp[u] = r}}

\* The live WriteLock objects bound to r.
WriteGuards(r) ==
    {<<t, s>> \in Threads \X Slots : wl[t][s] = r}
        \cup {<<t, 0>> : t \in {u \in Threads : pc[u] = "wassign" /\ tmp[u] = r}}

\* Copy assignments that have bound their destination to r and have not yet
\* made their increment of r's counter.
PendingCopies(r) == {t \in Threads : pc[t] = "rcopy2" /\ rl[t][dst[t]] = r}

(* ------------------------------- claims -------------------------------- *)
\* C1: mutual exclusion.  In every reachable state each resource has at most
\* one bound WriteLock, and no bound WriteLock while a bound ReadLock on it
\* exists.
MutualExclusion ==
    \A r \in Res :
        /\ Cardinality(WriteGuards(r)) <= 1
        /\ WriteGuards(r) # {} => ReadGuards(r) = {}

\* C1 witness: a resource holds a WriteLock while another thread is blocked in
\* read() or write() on it, and another resource is shared by two ReadLocks.
MutualExclusionWitness ==
    \E r, q \in Res, t \in Threads :
        /\ Cardinality(WriteGuards(r)) = 1
        /\ pc[t] \in {"read", "write"} /\ res[t] = r
        /\ \A s \in Slots : wl[t][s] # r
        /\ Cardinality(ReadGuards(q)) >= 2

\* C6 (as claimed): the read counter of each resource equals the number of
\* live ReadLock objects bound to it (a copy assignment between its two
\* counter operations counted as not yet bound).
ReadCountExact ==
    \A r \in Res :
        m_read_locks[r] = Cardinality(ReadGuards(r)) - Cardinality(PendingCopies(r))

\* C7: the write flag of a resource is set iff exactly one WriteLock is bound
\* to it.
WriteFlagExact ==
    \A r \in Res : m_write_lock[r] <=> Cardinality(WriteGuards(r)) = 1

\* C7 witness: a WriteLock that got its binding by a move holds one resource,
\* whose flag is set, and the other resource has neither flag nor WriteLock.
WriteFlagWitness ==
    \E r, q \in Res :
        /\ wl[1][2] = r /\ wl[1][1] = Null
        /\ m_write_lock[r]
        /\ q # r /\ ~m_write_lock[q] /\ WriteGuards(q) = {}

\* The guard returned to slot s of t by the step is bound to r.
GotWrite(t, s, r) == IF wl[t][s] = Null THEN wl'[t][s] = r ELSE tmp'[t] = r
GotRead(t, s, r) == IF rl[t][s] = Null THEN rl'[t][s] = r ELSE tmp'[t] = r

\* The granting rule as the specification states it.
MayWrite(t, r) ==
    /\ m_write_lock[r] = FALSE
    /\ m_read_locks[r] = 0
    /\ m_reserved_by[r] \in {NoThread, t}
MayRead(t, r) ==
    /\ m_write_lock[r] = FALSE
    /\ m_reserved_by[r] \in {NoThread, t}

\* The step is one of thread t or changes nothing (a refused attempt into an
\* empty guard changes nothing).
StepOf(t) ==
    \/ <<pc[t], dst[t], res[t], ticket[t], tmp[t], rl[t], wl[t]>>'
           # <<pc[t], dst[t], res[t], ticket[t], tmp[t], rl[t], wl[t]>>
    \/ UNCHANGED vars

\* An attempt of t to write-lock / read-lock r into its slot s: try_write()
\* or one iteration of write(); try_read() or one iteration of read().
WriteAttempt(t, s, r) ==
    \/ WTryLock(t, s, r)
    \/ \E k \in Tickets : WLock(t, s, r, k)
    \/ WriteIter(t) /\ dst[t] = s /\ res[t] = r
ReadAttempt(t, s, r) ==
    \/ RTryLock(t, s, r)
    \/ \E k \in Tickets : RLock(t, s, r, k)
    \/ ReadIter(t) /\ dst[t] = s /\ res[t] = r

WriteRuleAt(t, s, r) ==
    /\ GotWrite(t, s, r) <=> MayWrite(t, r)
    /\ ReadGuards(r) # {} => ~GotWrite(t, s, r)
ReadRuleAt(t, s, r) ==
    /\ GotRead(t, s, r) <=> MayRead(t, r)
    /\ WriteGuards(r) # {} => ~GotRead(t, s, r)

\* C8: try_write() returns a bound guard iff the write flag is false, the read
\* count is 0 and the resource is unreserved or reserved by the caller;
\* try_read() iff the write flag is false and the resource is unreserved or
\* reserved by the caller; each attempt of write() and read() grants under the
\* same condition; try_write() is refused while a ReadLock is live and
\* try_read() while a WriteLock is live.
GrantingRule ==
    [][\A t \in Threads : StepOf(t) => \A s \in SlotsOf(t) : \A r \in Res :
          /\ WriteRuleAt(t, s, r) \/ ~WriteAttempt(t, s, r)
          /\ ReadRuleAt(t, s, r) \/ ~ReadAttempt(t, s, r)
      ]_vars

\* C8 witness: a write() is kept waiting by nothing but another thread's
\* reservation (the resource is unlocked), while a guard granted earlier is
\* bound elsewhere.
GrantingRuleWitness ==
    \E t \in Threads, r \in Res :
        /\ pc[t] = "write" /\ res[t] = r
        /\ ~m_write_lock[r] /\ m_read_locks[r] = 0
        /\ m_reserved_by[r] \notin {NoThread, t}
        /\ \E q \in Res : ReadGuards(q) # {} \/ WriteGuards(q) # {}
\* Thread t is inside a call of kind k that has not returned.
InCall(t, k) ==
    /\ call[t].kind = k
    /\ pc[t] \in {"try0", "undo0", "reserve", "try", "undo"}

\* C3 (as claimed): under fair scheduling every multi_lock call eventually
\* returns.
MultiLockReturns ==
    \A t \in Threads : InCall(t, "multi") ~> (pc[t] = "held")

\* C4: under fair scheduling, each thread making a finite number of
\* range_lock calls and letting go of what it got, every range_lock call
\* eventually returns: no deadlock and no livelock.
RangeLockReturns ==
    \A t \in Threads : InCall(t, "range") ~> (pc[t] = "held")

\* C4 witness: two range_lock calls have both failed their optimistic pass and
\* each holds the reservation of a resource while the other tries again.
RangeLockWitness ==
    \E t, u \in Threads, r, q \in Res :
        /\ t # u /\ r # q
        /\ InCall(t, "range") /\ InCall(u, "range")
        /\ pc[t] = "try" /\ pc[u] = "try"
        /\ m_reserved_by[r] = t /\ m_reserved_by[q] = u

\* Thread t holds no guard.
HoldsNothing(t) == \A s \in Slots : rl[t][s] = Null /\ wl[t][s] = Null

\* A pass of t's multi_lock call has failed and is rolled back: the loop is
\* in its reservation round or about to start the next pass.
FailedPassUndone(t) ==
    /\ call[t].kind = "multi"
    /\ pc[t] = "reserve" \/ (pc[t] = "try" /\ Len(todo[t]) = NumBindings(t))

\* C2: when a pass of multi_lock has failed, the caller holds no lock at the
\* time the next retry begins: every guard the pass bound is unlocked again
\* (and with every other thread idle, no resource is left locked).
AllOrNothing ==
    \A t \in Threads :
        FailedPassUndone(t) =>
            /\ HoldsNothing(t)
            /\ (\A u \in Threads \ {t} : pc[u] = "idle" /\ HoldsNothing(u))
                   => \A r \in Res : ~m_write_lock[r] /\ m_read_locks[r] = 0

\* C2 witness: a pass over two bindings has failed on the second, which
\* another thread holds, after the first, whose resource is free again.
AllOrNothingWitness ==
    \E t \in Threads :
        /\ FailedPassUndone(t) /\ pc[t] = "reserve"
        /\ NumBindings(t) = 2
        /\ ~m_write_lock[Binding(t, 1).r] /\ m_read_locks[Binding(t, 1).r] = 0
        /\ m_reserved_by[Binding(t, 1).r] = NoThread
        /\ m_write_lock[Binding(t, 2).r] \/ m_read_locks[Binding(t, 2).r] > 0

\* Every guard of t's call is bound to its resource in the requested mode,
\* and the resource is locked accordingly.
AllBound(t) ==
    \A i \in 1..NumBindings(t) :
        LET b == Binding(t, i)
        IN  IF b.m = "W"
            THEN wl[t][i] = b.r /\ rl[t][i] = Null /\ m_write_lock[b.r]
            ELSE rl[t][i] = b.r /\ wl[t][i] = Null /\ m_read_locks[b.r] > 0

\* C9: multi_lock and range_lock return only when every guard in the call is
\* bound to its resource in the requested mode.
ReturnsAllBound ==
    [][\A t \in Threads : (pc[t] # "held" /\ pc'[t] = "held") => AllBound(t)']_vars

\* C9 witness: a multi_lock call and a range_lock call, of two bindings each,
\* have both returned and hold all their guards.
ReturnsAllBoundWitness ==
    \E t, u \in Threads :
        /\ t # u /\ pc[t] = "held" /\ pc[u] = "held"
        /\ call[t].kind = "multi" /\ call[u].kind = "range"
        /\ NumBindings(t) = 2 /\ NumBindings(u) = 2
        /\ AllBound(t) /\ AllBound(u)

\* Thread t is blocked inside read() or write(); thread t holds a guard.
Waiting(t) == pc[t] \in {"read", "write"}
Holding(t) == rl[t][1] # Null \/ wl[t][1] # Null

FiniteCallers == \A t \in Threads : ~endless[t]

SharedReads ==
    /\ [](\A r \in Res : (\A t \in Threads : rl[t][1] = r) => m_read_locks[r] = NumThreads)
    /\ [][\A t \in Threads : \A r \in Res :
              (ReadAttempt(t, 1, r) /\ MayRead(t, r)) => GotRead(t, 1, r)]_vars

\* C10 witness: every thread holds a ReadLock on one resource at once.
SharedReadsWitness ==
    \E r \in Res :
        /\ \A t \in Threads : rl[t][1] = r
        /\ m_read_locks[r] = NumThreads

\* C11 (as claimed): a reader of the payload observes only 0 or the value the
\* writer left in it.
NoTornRead == \A t \in Threads : seen[t] \in {<<>>, <<0>>, <<NewValue>>}

\* The frame of the specifications that use the guard interface only.
GuardFrame == UNCHANGED <<cycles, endless, payload, outcome, mutexes>>

\* The effect the copy constructor is to have: the new guard in slot s has the
\* binding of slot o, which keeps it; the counter of a bound source rises by
\* one; nothing else changes and the operation is complete.
CopyConstructEffect(t, s, o) ==
    /\ rl' = [rl EXCEPT ![t][s] = rl[t][o]]
    /\ m_read_locks' = IF rl[t][o] # Null
                       THEN [m_read_locks EXCEPT ![rl[t][o]] = @ + 1]
                       ELSE m_read_locks
    /\ UNCHANGED <<m_write_lock, m_priority, m_reserved_by, wl>>
    /\ pc'[t] = "idle"

\* C12: copy-constructing a ReadLock from a bound one gives a second guard on
\* the same resource and raises its read count by exactly one, in one step
\* that is possible whatever the reservation of the resource; copying an
\* empty ReadLock gives an empty guard and changes no counter.
CopyConstruct ==
    /\ [](\A t \in Threads : \A s, o \in SlotsOf(t) :
             (pc[t] = "idle" /\ s # o /\ rl[t][s] = Null)
                 => ENABLED (RCopyConstruct(t, s, o) /\ GuardFrame))
    /\ [][\A t \in Threads : \A s, o \in SlotsOf(t) :
             RCopyConstruct(t, s, o) => CopyConstructEffect(t, s, o)]_vars

\* C12 witness: two ReadLocks of thread 1 are bound to a resource that another
\* thread, waiting in write(), has reserved.
CopyConstructWitness ==
    \E r \in Res, u \in Threads :
        /\ rl[1][1] = r /\ rl[1][2] = r
        /\ m_read_locks[r] = 2
        /\ u # 1 /\ m_reserved_by[r] = u /\ pc[u] = "write" /\ res[u] = r

\* The effect a move of a ReadLock / WriteLock from slot o into slot s is to
\* have: the source is empty, the destination has the source's binding, the
\* previous binding of the destination (if any) is released, and the counter
\* and flag of every other resource, the source's among them, and every
\* reservation are unchanged.
RMoveEffect(t, s, o) ==
    /\ rl'[t][o] = Null
    /\ rl'[t][s] = rl[t][o]
    /\ \A u \in Threads, x \in Slots : <<u, x>> \notin {<<t, s>>, <<t, o>>} => rl'[u][x] = rl[u][x]
    /\ m_read_locks' = IF rl[t][s] # Null
                       THEN [m_read_locks EXCEPT ![rl[t][s]] = @ - 1]
                       ELSE m_read_locks
    /\ UNCHANGED <<m_write_lock, m_priority, m_reserved_by, wl>>
    /\ pc'[t] = "idle"
WMoveEffect(t, s, o) ==
    /\ wl'[t][o] = Null
    /\ wl'[t][s] = wl[t][o]
    /\ \A u \in Threads, x \in Slots : <<u, x>> \notin {<<t, s>>, <<t, o>>} => wl'[u][x] = wl[u][x]
    /\ m_write_lock' = IF wl[t][s] # Null
                       THEN [m_write_lock EXCEPT ![wl[t][s]] = FALSE]
                       ELSE m_write_lock
    /\ UNCHANGED <<m_read_locks, m_priority, m_reserved_by, rl>>
    /\ pc'[t] = "idle"

EmptyUnlockEffect(t) ==
    /\ outcome'[t] = "unlock_assert"
    /\ \A u \in Threads : pc'[u] = "aborted"
    /\ UNCHANGED <<shared, guards>>
Running == \A u \in Threads : pc[u] \notin {"aborted", "ended"}
DoubleReleaseRejected ==
    /\ [](Running => \A r \in Res :
            /\ m_read_locks[r] >= Cardinality(ReadGuards(r)) - Cardinality(PendingCopies(r))
            /\ WriteGuards(r) # {} => m_write_lock[r])
    /\ [][\A t \in Threads : \A s \in SlotsOf(t) :
            /\ (RUnlockEmpty(t, s) \/ WUnlockEmpty(t, s)) => EmptyUnlockEffect(t)
            /\ (RDestroy(t, s) /\ rl[t][s] = Null) => UNCHANGED <<shared, guards>>
            /\ (WDestroy(t, s) /\ wl[t][s] = Null) => UNCHANGED <<shared, guards>>
            /\ (pc[t] = "idle" /\ rl[t][s] = Null) => ~ENABLED (RUnlock(t, s) /\ GuardFrame)
            /\ (pc[t] = "idle" /\ wl[t][s] = Null) => ~ENABLED (WUnlock(t, s) /\ GuardFrame)]_vars
\* An unlock of an empty guard has failed while another guard of the same
\* thread still holds a read lock, whose count is untouched.
DoubleReleaseWitness ==
    \E r \in Res :
        /\ outcome[1] = "unlock_assert"
        /\ rl[1][1] = Null
        /\ rl[1][2] = r
        /\ m_read_locks[r] = 1

\* C15 (as claimed): teardown of a locked resource is always surfaced.  A move
\* construction from a resource on which a guard is live, or whose flag is
\* set or whose count is nonzero, does not complete normally: it ends in
\* bad_thread_safe_move; a destruction of such a resource ends in the failed
\* assertion; and both complete normally on a fully unlocked resource,
\* reserved or not.
Live(r) == ReadGuards(r) \cup WriteGuards(r) # {}
Locked(r) == m_write_lock[r] \/ m_read_locks[r] # 0
TeardownSurfaced ==
    [][\A t \in Threads :
        /\ \A r \in Res :
            /\ (TSMove1(t, r) /\ m_write_lock[r]) => outcome'[t] = "bad_thread_safe_move"
            /\ (TSDestroy1(t, r) /\ m_write_lock[r]) => outcome'[t] = "destruct_assert"
        /\ (TSMove2(t) /\ (Live(res[t]) \/ Locked(res[t])))
               => outcome'[t] = "bad_thread_safe_move"
        /\ (TSDestroy2(t) /\ (Live(res[t]) \/ Locked(res[t])))
               => outcome'[t] = "destruct_assert"
        /\ ((TSMove2(t) \/ TSDestroy2(t)) /\ ~Locked(res[t])) => outcome'[t] = "ok"]_vars

\* C16: try_read() and try_write() never wait: an idle thread can always take
\* the step, whatever the state of the resource, and the step completes the
\* call (the thread is not left in the loop of read() or write()).  A try
\* that fails leaves every write flag, read count, claimant and priority as
\* it was and returns an empty guard.
TryFailed(t) == UNCHANGED <<shared, guards>> /\ tmp'[t] = Null
TryIsSinglePass ==
    /\ [](\A t \in Threads : \A s \in SlotsOf(t) : \A r \in Res :
            pc[t] = "idle" =>
                /\ ENABLED (RTryLock(t, s, r) /\ GuardFrame)
                /\ ENABLED (WTryLock(t, s, r) /\ GuardFrame))
    /\ [][\A t \in Threads : \A s \in SlotsOf(t) : \A r \in Res :
            /\ RTryLock(t, s, r) =>
                  /\ pc'[t] \in {"idle", "rassign"}
                  /\ ~CanRead(t, r) => TryFailed(t)
            /\ WTryLock(t, s, r) =>
                  /\ pc'[t] \in {"idle", "wassign"}
                  /\ ~CanWrite(t, r) => TryFailed(t)]_vars
\* Thread 1 holds a ReadLock on r, thread 2 waits in write() with its
\* reservation on r, and a try_read() of thread 1 on r has just failed: the
\* count and the reservation are as before.
TryIsSinglePassWitness ==
    \E r \in Res :
        /\ pc[1] = "rassign"
        /\ tmp[1] = Null
        /\ rl[1][dst[1]] = r
        /\ m_read_locks[r] = 1
        /\ m_reserved_by[r] = 2
        /\ pc[2] = "write"

\* C17: releasing a bound guard, by unlock() or by its destructor, gives back
\* exactly one unit.  A ReadLock release lowers the read count of its
\* resource by one, a WriteLock release clears the write flag of its
\* resource; the guard is empty afterwards; claimant and priority of every
\* resource, the other kind of lock, the other guards and all other resources
\* are unchanged.
ReadReleaseEffect(t, s) ==
    /\ m_read_locks' = [m_read_locks EXCEPT ![rl[t][s]] = @ - 1]
    /\ rl' = [rl EXCEPT ![t][s] = Null]
    /\ UNCHANGED <<m_write_lock, m_priority, m_reserved_by, wl>>
WriteReleaseEffect(t, s) ==
    /\ m_write_lock' = [m_write_lock EXCEPT ![wl[t][s]] = FALSE]
    /\ wl' = [wl EXCEPT ![t][s] = Null]
    /\ UNCHANGED <<m_read_locks, m_priority, m_reserved_by, rl>>
ReleaseFrame ==
    [][\A t \in Threads : \A s \in SlotsOf(t) :
        /\ (RUnlock(t, s) \/ (RDestroy(t, s) /\ rl[t][s] # Null)) => ReadReleaseEffect(t, s)
        /\ (WUnlock(t, s) \/ (WDestroy(t, s) /\ wl[t][s] # Null)) => WriteReleaseEffect(t, s)]_vars
\* Thread 1 has released r, which thread 2 is waiting for with its
\* reservation in place, and still holds its WriteLock on another resource.
ReleaseFrameWitness ==
    \E r, q \in Res :
        /\ r # q
        /\ ~m_write_lock[r] /\ m_read_locks[r] = 0
        /\ m_reserved_by[r] = 2 /\ pc[2] \in {"read", "write"} /\ res[2] = r
        /\ wl[1] = <<Null, q>> /\ rl[1] = <<Null, Null>>
        /\ m_write_lock[q]

\* C18 (as claimed): in the contended path of multi_lock every round of the
\* retry loop applies reserve(), with the ticket of the call, to every
\* resource of the call before the pass is repeated: the round that begins
\* is to reserve each binding, first, middle and last alike, every reserve
\* step takes one binding off the round, and the pass is repeated only when
\* none is left.
ToReserve(t) == {todo[t][i] : i \in DOMAIN todo[t]}
ReservesEveryResource ==
    [][\A t \in Threads :
        call[t].kind = "multi" =>
            /\ (pc[t] # "reserve" /\ pc'[t] = "reserve")
                  => ToReserve(t)' = 1..NumBindings(t)
            /\ (pc[t] = "reserve" /\ pc'[t] = "reserve")
                  => ToReserve(t)' = ToReserve(t) \ {Head(todo[t])}
            /\ (pc[t] = "reserve" /\ pc'[t] = "try")
                  => ToReserve(t) = {Head(todo[t])}]_vars

\* C19: reserve(p) by thread t on resource r.  If r is unreserved or p is
\* greater than the recorded priority, the reservation becomes (p, t).  If r
\* is reserved and p equals the recorded priority, the priority stays and t
\* becomes the claimant exactly when t's identity is at most the claimant's.
\* If r is reserved and p is less than the recorded priority nothing changes,
\* also when t is the claimant.  Write flags, read counts and the
\* reservations of the other resources are never changed.
ReserveEffect(t, r, p) ==
    LET c == m_reserved_by[r]
        q == m_priority[r]
    IN  /\ (c = NoThread \/ p > q) => m_reserved_by'[r] = t /\ m_priority'[r] = p
        /\ (c # NoThread /\ p = q) =>
              /\ m_priority'[r] = q
              /\ m_reserved_by'[r] = (IF t <= c THEN t ELSE c)
        /\ (c # NoThread /\ p < q) => m_reserved_by'[r] = c /\ m_priority'[r] = q
        /\ \A o \in Res \ {r} :
              m_reserved_by'[o] = m_reserved_by[o] /\ m_priority'[o] = m_priority[o]
        /\ UNCHANGED <<m_write_lock, m_read_locks>>
ReserveSemantics ==
    [][\A t \in Threads : \A r \in Res : \A p \in Tickets :
        Reserve(t, r, p) => ReserveEffect(t, r, p)]_vars
\* Reservations made on resources that were locked at the time: r is write
\* locked and reserved by thread 1 with the high priority, q is read locked
\* and reserved by thread 2 with the low one.
ReserveSemanticsWitness ==
    \E r, q \in Res :
        /\ m_write_lock[r] /\ m_reserved_by[r] = 1 /\ m_priority[r] = 1
        /\ m_read_locks[q] = 1 /\ m_reserved_by[q] = 2 /\ m_priority[q] = 0

\* C20: every iteration of write() and read() either grants or reserves.  If
\* the granting rule holds the iteration sets the write flag (adds one to the
\* read count), leaves the resource unreserved without having registered
\* anything, and returns a guard bound to the resource.  If it fails the
\* iteration calls reserve with the ticket of the call and the call stays in
\* its loop.  The ticket is drawn once, with the first attempt, and is the
\* same in every iteration of the call.
Granted(t, r, w) ==
    /\ IF w THEN /\ m_write_lock' = [m_write_lock EXCEPT ![r] = TRUE]
                 /\ UNCHANGED m_read_locks
                 /\ \E s \in SlotsOf(t) : wl'[t][s] = r \/ (pc'[t] = "wassign" /\ tmp'[t] = r)
            ELSE /\ m_read_locks' = [m_read_locks EXCEPT ![r] = @ + 1]
                 /\ UNCHANGED m_write_lock
                 /\ \E s \in SlotsOf(t) : rl'[t][s] = r \/ (pc'[t] = "rassign" /\ tmp'[t] = r)
    /\ m_reserved_by' = [m_reserved_by EXCEPT ![r] = NoThread]
    /\ UNCHANGED m_priority
    /\ pc'[t] \notin {"read", "write"}
Refused(t, r, k, loop) ==
    /\ ReserveEffect(t, r, k)
    /\ pc'[t] = loop /\ res'[t] = r /\ ticket'[t] = k
    /\ UNCHANGED guards
BlockingSteps ==
    [][\A t \in Threads :
        /\ \A s \in SlotsOf(t) : \A r \in Res : \A k \in Tickets :
            /\ WLock(t, s, r, k) =>
                  IF CanWrite(t, r) THEN Granted(t, r, TRUE) ELSE Refused(t, r, k, "write")
            /\ RLock(t, s, r, k) =>
                  IF CanRead(t, r) THEN Granted(t, r, FALSE) ELSE Refused(t, r, k, "read")
        /\ WriteIter(t) =>
              IF CanWrite(t, res[t]) THEN Granted(t, res[t], TRUE)
              ELSE Refused(t, res[t], ticket[t], "write")
        /\ ReadIter(t) =>
              IF CanRead(t, res[t]) THEN Granted(t, res[t], FALSE)
              ELSE Refused(t, res[t], ticket[t], "read")
        /\ (pc[t] \in {"read", "write"} /\ pc'[t] = pc[t]) => ticket'[t] = ticket[t]]_vars
\* Thread 1 holds the WriteLock on r; thread 2 is in the loop of write() on r
\* and has registered its reservation with its ticket.
BlockingStepsWitness ==
    \E r \in Res :
        /\ wl[1][1] = r /\ m_write_lock[r]
        /\ pc[2] = "write" /\ res[2] = r /\ ticket[2] = 1
        /\ m_reserved_by[r] = 2 /\ m_priority[r] = 1

\* C21: no thread ever holds the internal mutexes of two resources at the same
\* time, in a single-resource operation or in a pass, a rollback or a
\* reservation round of multi_lock and range_lock.
Held(t) == {r \in Res : m_mutex[r] = t}
OneMutexAtATime == \A t \in Threads : Cardinality(Held(t)) <= 1
\* Thread 1 is in a retry pass of its call inside the critical section of its
\* second binding while thread 2, in the loop of write(), is inside the
\* critical section of another resource.
OneMutexWitness ==
    /\ pc[1] = "try" /\ todo[1] = <<2>> /\ lock[1] # Null /\ m_mutex[lock[1]] = 1
    /\ pc[2] = "write" /\ lock[2] # Null /\ m_mutex[lock[2]] = 2

\* C22 (as claimed): the read counter is the only field of the
\* synchronization state written outside the mutex.  Every step that changes
\* the write flag, the claimant or the priority of a resource is the body of
\* a critical section of that resource's mutex, taken by the thread that
\* holds it.
InCriticalSection(r) == \E t \in Threads : m_mutex[r] = t /\ lock[t] = r /\ lock'[t] = Null
WritesUnderMutex ==
    [][\A r \in Res :
        (\/ m_write_lock'[r] # m_write_lock[r]
         \/ m_reserved_by'[r] # m_reserved_by[r]
         \/ m_priority'[r] # m_priority[r]) => InCriticalSection(r)]_vars

\* C23: rollback of a failed pass of range_lock.  When the attempt on a
\* binding fails, the bindings to unlock are exactly those the pass has
\* acquired, in the partially iterated range and in the ranges before it;
\* every step of the rollback unlocks one binding that is bound and nothing
\* else; and when the pass reports failure (the reservation round begins)
\* the caller holds nothing.
BoundIn(t) == {i \in 1..NumBindings(t) : rl[t][i] # Null \/ wl[t][i] # Null}
InPass(t) == pc[t] \in {"try0", "try"}
InRollback(t) == pc[t] \in {"undo0", "undo"}
RangeRollbackComplete ==
    [][\A t \in Threads :
        call[t].kind = "range" =>
            /\ (InPass(t) /\ InRollback(t)')
                  => {todo'[t][j] : j \in DOMAIN todo'[t]} = BoundIn(t)
            /\ (\E k \in Tickets : OUndo(t, k))
                  => /\ Head(todo[t]) \in BoundIn(t)
                     /\ BoundIn(t)' = BoundIn(t) \ {Head(todo[t])}
            /\ ((InPass(t) \/ InRollback(t)) /\ pc'[t] = "reserve") => HoldsNothing(t)']_vars
\* A call with two ranges has failed in its second range, which another
\* thread holds, and the binding of its first range is free again.
RangeRollbackWitness ==
    \E t \in Threads :
        /\ call[t].kind = "range" /\ Len(call[t].ranges) = 2
        /\ pc[t] = "reserve" /\ Len(todo[t]) = 2
        /\ HoldsNothing(t)
        /\ ~m_write_lock[Binding(t, 1).r] /\ m_read_locks[Binding(t, 1).r] = 0
        /\ m_write_lock[Binding(t, 2).r]

\* C24 (as claimed): a failed try_lock of a guard has no effect on the guard.
\* When the attempt of ReadLock::try_lock / WriteLock::try_lock fails, the
\* failing step and the assignment of the empty result that completes the
\* call leave the guard bound to the resource it was bound to, and every read
\* count and write flag as it was.
FailedTryCompletes(t) ==
    \/ pc[t] = "rassign" /\ tmp[t] = Null /\ RAssign(t)
    \/ pc[t] = "wassign" /\ tmp[t] = Null /\ WAssign(t)
FailedTryLockKeepsGuard ==
    [][\A t \in Threads :
        /\ \A s \in SlotsOf(t) : \A r \in Res :
              /\ (RTryLock(t, s, r) /\ ~CanRead(t, r)) => UNCHANGED <<shared, guards>>
              /\ (WTryLock(t, s, r) /\ ~CanWrite(t, r)) => UNCHANGED <<shared, guards>>
        /\ FailedTryCompletes(t) => UNCHANGED <<shared, guards>>]_vars

\* C25 (as claimed): copy assignment of a ReadLock.  From a guard bound to
\* the resource the destination is bound to (self-assignment included) it
\* leaves every read count unchanged.  From a guard bound to a different
\* resource Y it lowers the count of the old resource by one and raises the
\* count of Y by one (two steps).
CopyAssignCounts ==
    [][\A t \in Threads :
        /\ \A s, o \in SlotsOf(t) :
              RCopyAssign(t, s, o) =>
                  /\ (rl[t][s] # Null /\ rl[t][s] = rl[t][o])
                        => m_read_locks' = m_read_locks
                  /\ (rl[t][s] # Null /\ rl[t][o] # Null /\ rl[t][s] # rl[t][o])
                        => /\ m_read_locks' = [m_read_locks EXCEPT ![rl[t][s]] = @ - 1]
                           /\ pc'[t] = "rcopy2"
        /\ RCopyAssign2(t)
              => m_read_locks' = [m_read_locks EXCEPT ![rl[t][dst[t]]] = @ + 1]]_vars

\* Thread t is executing a blocking acquisition whose set includes r: it is in
\* the loop of read() / write() on r, or in a multi_lock / range_lock call
\* with a binding of r.
Acquiring(t, r) ==
    \/ pc[t] \in {"read", "write"} /\ res[t] = r
    \/ /\ pc[t] \in {"try0", "undo0", "reserve", "try", "undo"}
       /\ \E i \in 1..NumBindings(t) : Binding(t, i).r = r

ClaimTakenOver(t, r) ==
    LET u == m_reserved_by'[r]
    IN  /\ u \in Threads \ {t}
        /\ \/ m_priority'[r] > m_priority[r]
           \/ m_priority'[r] = m_priority[r] /\ u <= t
        /\ pc'[u] \in {"read", "write"} /\ res'[u] = r /\ ticket'[u] = m_priority'[r]
        /\ UNCHANGED <<m_write_lock, m_read_locks, guards>>
ReservationPersists ==
    [][\A r \in Res : \A t \in Threads :
        (m_reserved_by[r] = t /\ m_reserved_by'[r] # t) =>
            \/ Granted(t, r, TRUE)
            \/ Granted(t, r, FALSE)
            \/ ClaimTakenOver(t, r)]_vars
\* Both threads wait in write() for r; thread 2 drew the low ticket, thread 1
\* the high one and is the claimant.
ReservationPersistsWitness ==
    \E r \in Res :
        /\ pc[1] = "write" /\ res[1] = r /\ ticket[1] = 1
        /\ pc[2] = "write" /\ res[2] = r /\ ticket[2] = 0
        /\ m_reserved_by[r] = 1 /\ m_priority[r] = 1

\* C28 (as claimed): a rejected relocation leaves the source intact.  When
\* the move construction from r ends in bad_thread_safe_move, the payload,
\* the write flag, the read count and the reservation of r are what they
\* were before the attempt.
RejectedMove(t, r) == TSMove1(t, r) /\ m_write_lock[r]
RejectedMoveKeepsSource ==
    [][\A t \in Threads : \A r \in Res :
        RejectedMove(t, r) =>
            /\ outcome'[t] = "bad_thread_safe_move"
            /\ m_object'[r] = m_object[r]
            /\ UNCHANGED <<shared, guards>>]_vars

\* C29 (as claimed): in the legacy implementation try_lock_read and
\* try_lock_write never wait on another thread.  A thread executing them
\* holds the internal mutex of at most one resource, also when the passed
\* guard is bound to a different resource, and never waits, holding one
\* mutex, for a mutex that another thread holds.
WaitsFor(t) == IF pc[t] \in {"release_read", "release_write"} THEN OldProxy(t) ELSE Null
LegacyTryNeverWaits ==
    \A t \in Threads :
        /\ Cardinality(Held(t)) <= 1
        /\ WaitsFor(t) # Null => m_mutex[WaitsFor(t)] \in {NoThread, t}

\* C30: the outcome of reserve(p) on an unreserved resource does not depend
\* on the stored priority.  The field is not initialised by the constructor
\* and is kept by unreserve(), so it holds any value when a resource is
\* unreserved; whatever it holds, a reserve(p) by any thread and for any p,
\* lower than the stored value included, records that thread as the claimant
\* with priority p.
\* Stated in two halves: the call can have that outcome, and it has no other.
ReserveRecords(t, r, p) == Reserve(t, r, p) /\ m_reserved_by'[r] = t /\ m_priority'[r] = p
ReserveIgnoresStalePriority ==
    /\ [](\A t \in Threads : \A r \in Res : \A p \in Tickets :
            pc[t] = "idle" /\ ~reserved(r) => ENABLED ReserveRecords(t, r, p))
    /\ [][\A t \in Threads : \A r \in Res : \A p \in Tickets :
            Reserve(t, r, p) /\ ~reserved(r) =>
                m_reserved_by'[r] = t /\ m_priority'[r] = p]_vars
\* Thread 1 holds the write lock of r, so its acquisition cleared whatever
\* reservation there was, and thread 2 has reserved r since with the lowest
\* priority; another resource is unreserved with the highest priority stored.
ReserveIgnoresStalePriorityWitness ==
    \E r, q \in Res :
        /\ r # q
        /\ wl[1][1] = r /\ m_reserved_by[r] = 2 /\ m_priority[r] = 0
        /\ ~reserved(q) /\ m_priority[q] = MaxTicket
====
